---- MODULE Spec2Model ----
(***************************************************************************)
(* Model of kedro's Pipeline (src/kedro/pipeline/pipeline.py) and of       *)
(* AbstractRunner / run_node (src/kedro/runner/runner.py).                 *)
(*                                                                         *)
(* A dataset name is the sequence of its characters, so that the           *)
(* transcoding separator "@" is parsed and not assumed.  A Node is a       *)
(* record [name, inputs, outputs]; Node itself (kedro/pipeline/node.py)    *)
(* and DataCatalog (kedro/io) are collaborators whose code is not among    *)
(* the two source files, so their behaviour follows the specification's    *)
(* data model (sections 3 and 6).                                          *)
(***************************************************************************)
EXTENDS Integers, Sequences, FiniteSets, Bags, TLC

VARIABLES
    args,       \* the node list handed to Pipeline(...)
    pipe,       \* the Pipeline object built from args (or the error raised)
    op,         \* the last selector / operator call made on pipe
    res,        \* what that call returned (a Pipeline object, a set, or an error)
    cat,        \* the caller's DataCatalog: registered names and their backings
    clone,      \* the catalog obtained by catalog.shallow_copy() inside run
    store,      \* the value held by every backing (shared by cat and clone)
    pc,         \* position of Runner.run
    free,       \* run's local variable free_outputs
    phase,      \* per node of the pipeline being run: "todo", "loaded", "done"
    calls,      \* bag of set_remaining_loads(name, count) calls received by clone
    loads,      \* per dataset name: number of catalog.load calls made by run_node
    saved,      \* log of catalog.save calls: set of <<name, value>>
    returned    \* the mapping returned by run

vars == <<args, pipe, op, res, cat, clone, store, pc, free, phase, calls, loads, saved, returned>>

runVars == <<cat, clone, store, pc, free, phase, calls, loads, saved, returned>>

----------------------------------------------------------------------------
(* Bounds *)

MaxArgs == 3        \* length of the node list given to the constructor
MaxNames == 2       \* length of the argument list of only_nodes / from_nodes
MaxRunNodes == 3    \* size of the pipelines handed to the runner
MaxReg == 3         \* number of datasets registered in the caller's catalog

----------------------------------------------------------------------------
(* Dataset names and Node.get_namespace *)

SEPARATOR == "@"

dsA == <<"a">>
dsB == <<"b">>
dsC == <<"c">>
dsD == <<"d">>
dsE == <<"e">>
dsEx == <<"e", "@", "x">>
dsEy == <<"e", "@", "y">>

DatasetNames == {dsA, dsB, dsC, dsD, dsE, dsEx, dsEy}

SeparatorAt(name) == {i \in 1..Len(name) : name[i] = SEPARATOR}

FirstOf(S) == CHOOSE i \in S : \A j \in S : i <= j

\* name.split("@")[0]
get_namespace(name) ==
    IF SeparatorAt(name) = {} THEN name
    ELSE SubSeq(name, 1, FirstOf(SeparatorAt(name)) - 1)

Namespaces(names) == {get_namespace(n) : n \in names}

----------------------------------------------------------------------------
(* Nodes *)

Node(nm, ins, outs) == [name |-> nm, inputs |-> ins, outputs |-> outs]

input_namespaces(node) == Namespaces(node.inputs)

output_namespaces(node) == Namespaces(node.outputs)

\* The nodes pipelines are built from.  nF1, nF2 are the linear pipeline of
\* the specification's scenario 1; nF3 closes a cycle of length 2 with nF1
\* and nW one of length 3 with nF1 and nF2; nT1 and nT2 exchange one dataset
\* under two transcodings; nS reads and writes two transcodings of one
\* dataset; nF1b is a different node that carries nF1's name and uses "e"
\* without the separator.
nF1  == Node("f1", {dsA, dsB}, {dsC})
nF2  == Node("f2", {dsC}, {dsD})
nF3  == Node("f3", {dsC}, {dsA})
nT1  == Node("t1", {dsB}, {dsEx})
nT2  == Node("t2", {dsEy}, {dsD})
nS   == Node("s", {dsEx}, {dsEy})
nW   == Node("w", {dsD}, {dsB})
nF1b == Node("f1", {dsA, dsE}, {dsC})

Universe == {nF1, nF2, nF3, nT1, nT2, nS, nW, nF1b}

NodeNames == {n.name : n \in Universe} \cup {"zz"}

Range(seq) == {seq[i] : i \in 1..Len(seq)}

SeqsUpTo(S, n) == UNION {[1..k -> S] : k \in 0..n}

RECURSIVE SetToSeq(_)
SetToSeq(S) ==
    IF S = {} THEN <<>>
    ELSE LET x == CHOOSE y \in S : TRUE IN <<x>> \o SetToSeq(S \ {x})

----------------------------------------------------------------------------
(* Pipeline construction *)

NoError == "none"

\* The object left behind by a constructor or a call that raised.
Raised(kind) ==
    [err |-> kind, nodes |-> {}, by_name |-> <<>>, by_input |-> <<>>,
     by_output |-> <<>>, topo |-> <<>>]

NameCount(nodes, nm) == Cardinality({i \in 1..Len(nodes) : nodes[i].name = nm})

\* TRUE when the check raises ValueError
_validate_duplicate_nodes(nodes) ==
    \E i \in 1..Len(nodes) : NameCount(nodes, nodes[i].name) > 1

AllNamesOf(nodes) ==
    UNION {nodes[i].inputs \cup nodes[i].outputs : i \in 1..Len(nodes)}

\* TRUE when the check raises ValueError
_validate_namespaced_inputs_outputs(nodes) ==
    \E dataset_name \in AllNamesOf(nodes) :
        /\ get_namespace(dataset_name) # dataset_name
        /\ get_namespace(dataset_name) \in AllNamesOf(nodes)

\* Counter(outputs_list)[k]: occurrences of namespace k among the outputs of
\* all nodes of the list.
OutputCount(nodes, k) ==
    Cardinality({io \in (1..Len(nodes)) \X DatasetNames :
                    /\ io[2] \in nodes[io[1]].outputs
                    /\ get_namespace(io[2]) = k})

\* Variant that tallies the literal output names instead of their namespaces
_validate_unique_outputs_by_name(nodes) ==
    \E i, j \in 1..Len(nodes) : i # j /\ nodes[i].outputs \cap nodes[j].outputs # {}

\* TRUE when the check raises OutputNotUniqueError
_validate_unique_outputs(nodes) ==
    \E i \in 1..Len(nodes) : \E o \in nodes[i].outputs :
        OutputCount(nodes, get_namespace(o)) > 1

\* self._nodes_by_input is a defaultdict(set): reading a key that is absent
\* yields the empty set and inserts the key.
NodesByInput(p, k) == IF k \in DOMAIN p.by_input THEN p.by_input[k] ELSE {}

Touch(p, keys) ==
    [p EXCEPT !.by_input =
        [k \in (DOMAIN p.by_input) \cup keys |-> NodesByInput(p, k)]]

node_dependencies(p) ==
    [child \in p.nodes |->
        {parent \in p.nodes :
            \E output \in output_namespaces(parent) :
                child \in NodesByInput(p, output)}]

\* toposort.toposort: self dependencies are discarded, then the items
\* without remaining dependencies are yielded as one group, removed, and so
\* on; items left over when no group can be formed are a cycle.
RECURSIVE toposort_loop(_)
toposort_loop(data) ==
    LET ordered == {k \in DOMAIN data : data[k] = {}} IN
    IF ordered = {} THEN [groups |-> <<>>, rest |-> DOMAIN data]
    ELSE LET later == toposort_loop([k \in (DOMAIN data) \ ordered |->
                                        data[k] \ ordered])
         IN [groups |-> <<ordered>> \o later.groups, rest |-> later.rest]

toposort(data) == toposort_loop([k \in DOMAIN data |-> data[k] \ {k}])

\* Result of _topologically_sorted: the groups, and whether it raised
\* CircularDependencyError.
_topologically_sorted(deps) ==
    [groups |-> toposort(deps).groups, circular |-> toposort(deps).rest # {}]

\* The object as __init__ has filled it in before the topological sort.
Indexed(nodes) ==
    [err |-> NoError,
     nodes |-> Range(nodes),
     by_name |-> [nm \in {n.name : n \in Range(nodes)} |->
                    CHOOSE n \in Range(nodes) : n.name = nm],
     by_input |-> [k \in UNION {input_namespaces(n) : n \in Range(nodes)} |->
                    {n \in Range(nodes) : k \in input_namespaces(n)}],
     by_output |-> [k \in UNION {output_namespaces(n) : n \in Range(nodes)} |->
                    CHOOSE n \in Range(nodes) : k \in output_namespaces(n)],
     topo |-> <<>>]

\* Pipeline.__init__ (name = None, every element a Node)
Pipeline(nodes) ==
    IF _validate_duplicate_nodes(nodes) THEN Raised("ValueError")
    ELSE IF _validate_namespaced_inputs_outputs(nodes) THEN Raised("ValueError")
    ELSE IF _validate_unique_outputs(nodes) THEN Raised("OutputNotUniqueError")
    ELSE LET sorted == _topologically_sorted(node_dependencies(Indexed(nodes))) IN
         IF sorted.circular THEN Raised("CircularDependencyError")
         ELSE [Touch(Indexed(nodes),
                     UNION {output_namespaces(n) : n \in Range(nodes)})
                 EXCEPT !.topo = sorted.groups]

----------------------------------------------------------------------------
(* Pipeline queries *)

\* Pipeline.nodes: the groups chained; a group is a set, so the order inside
\* a group is the set's iteration order.
RECURSIVE Chain(_)
Chain(groups) ==
    IF groups = <<>> THEN <<>>
    ELSE SetToSeq(Head(groups)) \o Chain(Tail(groups))

nodes_of(p) == Chain(p.topo)

grouped_nodes(p) == p.topo

all_inputs(p) == UNION {n.inputs : n \in Range(nodes_of(p))}

all_outputs(p) == UNION {n.outputs : n \in Range(nodes_of(p))}

\* Variant that compares literal names instead of namespaces
_remove_intermediates_by_name(p, datasets) ==
    {ds \in datasets : ds \notin (all_inputs(p) \cap all_outputs(p))}

_remove_intermediates(p, datasets) ==
    {ds \in datasets :
        get_namespace(ds) \notin
            (Namespaces(all_inputs(p)) \cap Namespaces(all_outputs(p)))}

inputs(p) == _remove_intermediates(p, all_inputs(p))

outputs(p) == _remove_intermediates(p, all_outputs(p))

data_sets(p) == all_outputs(p) \cup all_inputs(p)

----------------------------------------------------------------------------
(* Pipeline selectors.  Each returns the new Pipeline (or the error); the   *)
(* keys it reads in self._nodes_by_input are given by the *_keys operator.  *)

only_nodes(p, node_names) ==
    IF Range(node_names) \ DOMAIN p.by_name # {} THEN Raised("ValueError")
    ELSE Pipeline([i \in 1..Len(node_names) |-> p.by_name[node_names[i]]])

only_nodes_with_inputs(p, names) ==
    IF names \ data_sets(p) # {} THEN Raised("ValueError")
    ELSE Pipeline(SetToSeq(UNION {NodesByInput(p, input_) : input_ \in names}))

only_nodes_with_inputs_keys(p, names) ==
    IF names \ data_sets(p) # {} THEN {} ELSE names

\* The while loop of from_inputs; the result carries all_nodes and every
\* key looked up on the way.
RECURSIVE from_inputs_loop(_, _, _, _)
from_inputs_loop(p, starting, all_nodes, keys) ==
    LET found == UNION {NodesByInput(p, input_) : input_ \in starting} IN
    IF found = {} THEN [all_nodes |-> all_nodes, keys |-> keys \cup starting]
    ELSE from_inputs_loop(p, UNION {n.outputs : n \in found},
                          all_nodes \cup found, keys \cup starting)

from_inputs(p, names) ==
    IF names \ data_sets(p) # {} THEN Raised("ValueError")
    ELSE Pipeline(SetToSeq(from_inputs_loop(p, names, {}, {}).all_nodes))

from_inputs_keys(p, names) ==
    IF names \ data_sets(p) # {} THEN {}
    ELSE from_inputs_loop(p, names, {}, {}).keys

\* Variant that concatenates the two node lists without making a set of them
Add_without_set(p, other) == Pipeline(nodes_of(p) \o nodes_of(other))

\* Pipeline.__add__ with another Pipeline
Add(p, other) == Pipeline(SetToSeq(Range(nodes_of(p)) \cup Range(nodes_of(other))))

from_nodes(p, node_names) ==
    IF only_nodes(p, node_names).err # NoError THEN only_nodes(p, node_names)
    ELSE Add(only_nodes(p, node_names),
             from_inputs(p, all_outputs(only_nodes(p, node_names))))

from_nodes_keys(p, node_names) ==
    IF only_nodes(p, node_names).err # NoError THEN {}
    ELSE from_inputs_keys(p, all_outputs(only_nodes(p, node_names)))

\* self._nodes_by_output is a plain dict, read after an "in" test
ProducersOf(p, names) ==
    {p.by_output[output] : output \in names \cap DOMAIN p.by_output}

only_nodes_with_outputs(p, names) ==
    IF names \ data_sets(p) # {} THEN Raised("ValueError")
    ELSE Pipeline(SetToSeq(ProducersOf(p, names)))

\* The while loop of to_outputs
RECURSIVE to_outputs_loop(_, _, _)
to_outputs_loop(p, starting, all_nodes) ==
    IF ProducersOf(p, starting) = {} THEN all_nodes
    ELSE to_outputs_loop(p, UNION {n.inputs : n \in ProducersOf(p, starting)},
                         all_nodes \cup ProducersOf(p, starting))

to_outputs(p, names) ==
    IF names \ data_sets(p) # {} THEN Raised("ValueError")
    ELSE Pipeline(SetToSeq(to_outputs_loop(p, names, {})))

----------------------------------------------------------------------------
(* DataCatalog and Node.run, as the specification's data model gives them *)

\* A backing is the surface a registered name reads and writes.  Names the
\* caller registered address the surface of their namespace; a dataset made
\* by create_default_data_set and registered with add is a backing of its
\* own.
SharedBacking(name) == [kind |-> "shared", name |-> get_namespace(name)]

DefaultBacking(name) == [kind |-> "default", name |-> name]

Backings ==
    {SharedBacking(n) : n \in DatasetNames} \cup {DefaultBacking(n) : n \in DatasetNames}

NoValue == [by |-> "nothing", name |-> <<>>]

StoredValue(backing) == [by |-> "catalog", name |-> backing.name]

EmptyCatalog == [reg |-> {}, backing |-> <<>>]

EmptyStore == [k \in Backings |-> NoValue]

\* catalog.list()
list(catalog) == catalog.reg

\* catalog.exists(name)
exists(catalog, values, name) == values[catalog.backing[name]] # NoValue

\* catalog.shallow_copy(): a new registration map over the same datasets
shallow_copy(catalog) == catalog

\* catalog.add(name, data_set)
add(catalog, name, backing) ==
    [reg |-> catalog.reg \cup {name},
     backing |-> [n \in catalog.reg \cup {name} |->
                    IF n = name THEN backing ELSE catalog.backing[n]]]

\* catalog.load(name)
load(catalog, values, name) == values[catalog.backing[name]]

\* catalog.save(name, data) for every item of a mapping of outputs
save_all(catalog, values, outs) ==
    [k \in Backings |->
        IF \E name \in DOMAIN outs : catalog.backing[name] = k
        THEN outs[CHOOSE name \in DOMAIN outs : catalog.backing[name] = k]
        ELSE values[k]]

\* node.run(inputs): one value per declared output, marked with its origin
node_run(node) == [o \in node.outputs |-> [by |-> node.name, name |-> o]]

----------------------------------------------------------------------------
(* Pipeline: state machine of one constructor call followed by one call on  *)
(* the constructed object.                                                  *)

NoPipeline == Raised("unconstructed")

NoOp == [name |-> "none", node_names |-> <<>>, datasets |-> {}, other |-> NoPipeline]

RunnerIdle ==
    /\ cat = EmptyCatalog
    /\ clone = EmptyCatalog
    /\ store = EmptyStore
    /\ pc = "idle"
    /\ free = {}
    /\ phase = <<>>
    /\ calls = EmptyBag
    /\ loads = <<>>
    /\ saved = {}
    /\ returned = <<>>

Init ==
    /\ args \in SeqsUpTo(Universe, MaxArgs)
    /\ pipe = NoPipeline
    /\ op = NoOp
    /\ res = NoPipeline
    /\ RunnerIdle

\* Pipelines another caller has constructed (the right operand of +)
OtherPipelines ==
    {Pipeline(SetToSeq(S)) :
        S \in {T \in SUBSET Universe : Cardinality(T) <= MaxArgs}}
        \ {Raised(k) : k \in {"ValueError", "OutputNotUniqueError",
                              "CircularDependencyError"}}

DatasetArgs == {S \in SUBSET DatasetNames : Cardinality(S) \in 1..MaxNames}

Construct ==
    /\ pipe = NoPipeline
    /\ pipe' = Pipeline(args)
    /\ UNCHANGED <<args, op, res>>
    /\ UNCHANGED runVars

Callable == pipe.err = NoError /\ op = NoOp

CallInputsOutputs ==
    /\ Callable
    /\ op' = [NoOp EXCEPT !.name = "inputs_outputs"]
    /\ res' = [err |-> NoError, inputs |-> inputs(pipe), outputs |-> outputs(pipe)]
    /\ UNCHANGED <<args, pipe>>
    /\ UNCHANGED runVars

CallOnlyNodes ==
    /\ Callable
    /\ \E node_names \in SeqsUpTo(NodeNames, MaxNames) :
        /\ op' = [NoOp EXCEPT !.name = "only_nodes", !.node_names = node_names]
        /\ res' = only_nodes(pipe, node_names)
    /\ UNCHANGED <<args, pipe>>
    /\ UNCHANGED runVars

CallOnlyNodesWithInputs ==
    /\ Callable
    /\ \E names \in DatasetArgs :
        /\ op' = [NoOp EXCEPT !.name = "only_nodes_with_inputs", !.datasets = names]
        /\ res' = only_nodes_with_inputs(pipe, names)
        /\ pipe' = Touch(pipe, only_nodes_with_inputs_keys(pipe, names))
    /\ UNCHANGED args
    /\ UNCHANGED runVars

CallFromInputs ==
    /\ Callable
    /\ \E names \in DatasetArgs :
        /\ op' = [NoOp EXCEPT !.name = "from_inputs", !.datasets = names]
        /\ res' = from_inputs(pipe, names)
        /\ pipe' = Touch(pipe, from_inputs_keys(pipe, names))
    /\ UNCHANGED args
    /\ UNCHANGED runVars

CallFromNodes ==
    /\ Callable
    /\ \E node_names \in SeqsUpTo(NodeNames, MaxNames) :
        /\ op' = [NoOp EXCEPT !.name = "from_nodes", !.node_names = node_names]
        /\ res' = from_nodes(pipe, node_names)
        /\ pipe' = Touch(pipe, from_nodes_keys(pipe, node_names))
    /\ UNCHANGED args
    /\ UNCHANGED runVars

CallAdd ==
    /\ Callable
    /\ \E other \in OtherPipelines :
        /\ op' = [NoOp EXCEPT !.name = "add", !.other = other]
        /\ res' = Add(pipe, other)
    /\ UNCHANGED <<args, pipe>>
    /\ UNCHANGED runVars

\* copy.copy of a list: a new list whose items are the objects of the
\* original list, each given here by its position in the original
copy_copy(groups) == [i \in 1..Len(groups) |-> i]

\* P.grouped_nodes: res.groups is the returned list, its items refer to the
\* layer sets the Pipeline holds in _topo_sorted_nodes
CallGroupedNodes ==
    /\ Callable
    /\ op' = [NoOp EXCEPT !.name = "grouped_nodes"]
    /\ res' = [err |-> NoError, groups |-> copy_copy(pipe.topo)]
    /\ UNCHANGED <<args, pipe>>
    /\ UNCHANGED runVars

\* The caller pops the last layer off the list grouped_nodes returned: the
\* list is the caller's own
CallerPopsLayer ==
    /\ op.name = "grouped_nodes"
    /\ res.groups # <<>>
    /\ res' = [res EXCEPT !.groups = SubSeq(@, 1, Len(@) - 1)]
    /\ UNCHANGED <<args, pipe, op>>
    /\ UNCHANGED runVars

\* The caller removes a node from a layer set of the returned list: the set
\* is the object the Pipeline holds
CallerDiscardsNode ==
    /\ op.name = "grouped_nodes"
    /\ \E i \in 1..Len(res.groups) : \E n \in pipe.topo[res.groups[i]] :
          pipe' = [pipe EXCEPT !.topo[res.groups[i]] = @ \ {n}]
    /\ UNCHANGED <<args, op, res>>
    /\ UNCHANGED runVars

Next ==
    \/ Construct
    \/ CallInputsOutputs
    \/ CallOnlyNodes
    \/ CallOnlyNodesWithInputs
    \/ CallFromInputs
    \/ CallFromNodes
    \/ CallAdd
    \/ CallGroupedNodes
    \/ CallerPopsLayer
    \/ CallerDiscardsNode

Spec == Init /\ [][Next]_vars

----------------------------------------------------------------------------
(* AbstractRunner.run and run_node *)

\* Variant that demands every input of every node, intermediate or not
unsatisfied_all_inputs(p, catalog) == all_inputs(p) \ list(catalog)

unsatisfied(p, catalog) == inputs(p) \ list(catalog)

\* Variant that returns every unregistered output, terminal or not
free_outputs_all(p, catalog) == all_outputs(p) \ list(catalog)

free_outputs(p, catalog) == outputs(p) \ list(catalog)

unregistered_ds(p, catalog) == data_sets(p) \ list(catalog)

\* for ds_name in unregistered_ds: catalog.add(ds_name, default data set)
RECURSIVE add_defaults(_, _)
add_defaults(catalog, names) ==
    IF names = {} THEN catalog
    ELSE LET ds_name == CHOOSE n \in names : TRUE IN
         add_defaults(add(catalog, ds_name, DefaultBacking(ds_name)),
                      names \ {ds_name})

num_loads(p, ds_name) == Len(nodes_of(only_nodes_with_inputs(p, {ds_name})))

\* The set_remaining_loads calls of one run: one per name of all_inputs()
remaining_loads_calls(p) == SetToBag({<<ds_name, num_loads(p, ds_name)>> :
                                        ds_name \in all_inputs(p)})

\* Variant of line 68 without the copy: run works on the caller's catalog
run_catalog_without_copy == "caller"

\* catalog = catalog.shallow_copy(): the object run registers data sets in
\* and sets load counts on
run_catalog == "clone"

\* run_only_missing, line 112
missing_ds(catalog, values) ==
    {ds \in list(catalog) : ~exists(catalog, values, ds)}

\* run_only_missing, line 113
to_build(p, catalog, values) ==
    free_outputs(p, catalog) \cup missing_ds(catalog, values)

\* run_only_missing, lines 114-116; an error of either selector is raised
first_to_rerun(p, catalog, values) ==
    IF only_nodes_with_outputs(p, to_build(p, catalog, values)).err # NoError
    THEN only_nodes_with_outputs(p, to_build(p, catalog, values))
    ELSE Add(only_nodes_with_outputs(p, to_build(p, catalog, values)),
             from_inputs(p, to_build(p, catalog, values)))

memory_sets(p, catalog) == data_sets(p) \ list(catalog)

output_to_memory(p, catalog) == only_nodes_with_outputs(p, memory_sets(p, catalog))

input_from_memory(rerun, p, catalog) == inputs(rerun) \cap memory_sets(p, catalog)

\* Variant that leaves out lines 120-123, the producers of memory data sets
to_rerun_without_memory(p, catalog, values) == first_to_rerun(p, catalog, values)

\* run_only_missing, lines 111-123: the pipeline handed to run, or the
\* ValueError raised on the way
to_rerun(p, catalog, values) ==
    LET rerun == first_to_rerun(p, catalog, values) IN
    IF rerun.err # NoError THEN rerun
    ELSE LET producers == to_outputs(output_to_memory(p, catalog),
                                     input_from_memory(rerun, p, catalog)) IN
         IF producers.err # NoError THEN producers
         ELSE Add(rerun, producers)

Catalogs ==
    {[reg |-> R, backing |-> [n \in R |-> SharedBacking(n)]] :
        R \in {S \in SUBSET DatasetNames : Cardinality(S) <= MaxReg}}

\* The values a catalog's backings can hold before the run
Stores(catalog) ==
    {[k \in Backings |-> IF k \in X THEN StoredValue(k) ELSE NoValue] :
        X \in SUBSET {catalog.backing[n] : n \in catalog.reg}}

RunPipelines ==
    {Pipeline(SetToSeq(S)) :
        S \in {T \in SUBSET Universe : Cardinality(T) <= MaxRunNodes}}
        \ {Raised(k) : k \in {"ValueError", "OutputNotUniqueError",
                              "CircularDependencyError"}}

InitRun ==
    /\ pipe \in RunPipelines
    /\ args = SetToSeq(pipe.nodes)
    /\ op = NoOp
    /\ res = NoPipeline
    /\ cat \in Catalogs
    /\ store \in Stores(cat)
    /\ clone = EmptyCatalog
    /\ pc = "idle"
    /\ free = {}
    /\ phase = <<>>
    /\ calls = EmptyBag
    /\ loads = <<>>
    /\ saved = {}
    /\ returned = <<>>

\* run_only_missing up to the call of run: pipe becomes the pipeline handed
\* to run, op keeps the pipeline run_only_missing was called with and its
\* local variable to_build.
RunOnlyMissing ==
    /\ pc = "idle"
    /\ op' = [NoOp EXCEPT !.name = "run_only_missing",
                           !.datasets = to_build(pipe, cat, store),
                           !.other = pipe]
    /\ IF to_rerun(pipe, cat, store).err # NoError
       THEN /\ pc' = "ValueError in run_only_missing"
            /\ pipe' = IF first_to_rerun(pipe, cat, store).err # NoError THEN pipe
                        ELSE Touch(pipe, from_inputs_keys(pipe, to_build(pipe, cat, store)))
       ELSE /\ pc' = "delegated"
            /\ pipe' = to_rerun(pipe, cat, store)
    /\ UNCHANGED <<args, res, cat, clone, store, free, phase, calls, loads, saved, returned>>

\* run up to the call of _run: the copy, the check of the free inputs, the
\* default data sets and the load counts.
RunBegin ==
    /\ pc \in {"idle", "delegated"}
    /\ IF unsatisfied(pipe, shallow_copy(cat)) # {}
       THEN /\ pc' = "ValueError"
            /\ clone' = shallow_copy(cat)
            /\ UNCHANGED <<pipe, cat, free, phase, calls, loads>>
       ELSE /\ pc' = IF \E ds_name \in all_inputs(pipe) :
                           only_nodes_with_inputs(pipe, {ds_name}).err # NoError
                     THEN "ValueError" ELSE "running"
            /\ free' = free_outputs(pipe, shallow_copy(cat))
            /\ clone' = add_defaults(shallow_copy(cat),
                                     unregistered_ds(pipe, shallow_copy(cat)))
            /\ cat' = IF run_catalog = "clone" THEN cat
                      ELSE add_defaults(cat, unregistered_ds(pipe, cat))
            /\ calls' = remaining_loads_calls(pipe)
            /\ pipe' = Touch(pipe, all_inputs(pipe))
            /\ phase' = [n \in pipe.nodes |-> "todo"]
            /\ loads' = [n \in data_sets(pipe) |-> 0]
    /\ UNCHANGED <<args, op, res, store, saved, returned>>

\* _run walks grouped_nodes in order: the group being executed is the first
\* one that still has an unfinished node.
Unfinished(i) == \E n \in pipe.topo[i] : phase[n] # "done"

CurrentGroup ==
    IF \E i \in 1..Len(pipe.topo) : Unfinished(i)
    THEN pipe.topo[CHOOSE i \in 1..Len(pipe.topo) :
                      Unfinished(i) /\ \A j \in 1..(i - 1) : ~Unfinished(j)]
    ELSE {}

\* run_node, first line: load every input of the node
NodeLoad(n) ==
    /\ pc = "running"
    /\ n \in CurrentGroup
    /\ phase[n] = "todo"
    /\ loads' = [x \in DOMAIN loads |-> IF x \in n.inputs THEN loads[x] + 1 ELSE loads[x]]
    /\ IF \E name \in n.inputs : load(clone, store, name) = NoValue
       THEN pc' = "DataSetError" /\ UNCHANGED phase
       ELSE phase' = [phase EXCEPT ![n] = "loaded"] /\ UNCHANGED pc
    /\ UNCHANGED <<args, pipe, op, res, cat, clone, store, free, calls, saved, returned>>

\* run_node, the rest: run the node and save every output
NodeSave(n) ==
    /\ pc = "running"
    /\ phase[n] = "loaded"
    /\ store' = save_all(clone, store, node_run(n))
    /\ saved' = saved \cup {<<o, node_run(n)[o]>> : o \in n.outputs}
    /\ phase' = [phase EXCEPT ![n] = "done"]
    /\ UNCHANGED <<args, pipe, op, res, cat, clone, pc, free, calls, loads, returned>>

\* run after _run has returned: load the free outputs and return them
RunEnd ==
    /\ pc = "running"
    /\ \A n \in pipe.nodes : phase[n] = "done"
    /\ returned' = [ds_name \in free |-> load(clone, store, ds_name)]
    /\ pc' = "done"
    /\ UNCHANGED <<args, pipe, op, res, cat, clone, store, free, phase, calls, loads, saved>>

NextRun ==
    \/ RunOnlyMissing
    \/ RunBegin
    \/ \E n \in pipe.nodes : NodeLoad(n)
    \/ \E n \in pipe.nodes : NodeSave(n)
    \/ RunEnd

SpecRun == InitRun /\ [][NextRun]_vars

----------------------------------------------------------------------------
(* Properties of the constructed Pipeline *)

Constructed == pipe.err = NoError

\* parent -> child when an output namespace of parent is an input namespace
\* of child
IsParent(parent, child) ==
    Namespaces(parent.outputs) \cap Namespaces(child.inputs) # {}

LayerOf(p, n) == CHOOSE i \in 1..Len(p.topo) : n \in p.topo[i]

PositionOf(seq, x) == CHOOSE i \in 1..Len(seq) : seq[i] = x

IsPartition(p) ==
    /\ UNION Range(p.topo) = p.nodes
    /\ \A i \in 1..Len(p.topo) : p.topo[i] # {}
    /\ \A i, j \in 1..Len(p.topo) : i # j => p.topo[i] \cap p.topo[j] = {}

\* C1: in every constructed Pipeline grouped_nodes partitions the nodes into
\* non-empty layers, the first layer is exactly the nodes without parents,
\* every parent of a node lies in a strictly earlier layer, and in the list
\* nodes every parent precedes its child.
C1_LayersRespectDependencies ==
    Constructed =>
        /\ IsPartition(pipe)
        /\ pipe.nodes # {} =>
              grouped_nodes(pipe)[1] =
                 {n \in pipe.nodes : \A m \in pipe.nodes : ~IsParent(m, n)}
        /\ \A child \in pipe.nodes : \A parent \in pipe.nodes :
              IsParent(parent, child) =>
                 /\ LayerOf(pipe, parent) < LayerOf(pipe, child)
                 /\ PositionOf(nodes_of(pipe), parent)
                       < PositionOf(nodes_of(pipe), child)

\* The nodes reachable from the nodes of frontier along parent -> child edges
RECURSIVE Descendants(_, _, _)
Descendants(S, frontier, seen) ==
    LET children == {n \in S : \E m \in frontier : IsParent(m, n)} IN
    IF children \subseteq seen THEN seen
    ELSE Descendants(S, children \ seen, seen \cup children)

HasCycle(S) == \E n \in S : n \in Descendants(S, {n}, {})

\* C2: the dependency graph of every constructed Pipeline is acyclic
\* (construction fails whenever the graph has a cycle of any length).
C2_ConstructedIsAcyclic == Constructed => ~HasCycle(pipe.nodes)

NamesUnique(nodes) ==
    \A i, j \in 1..Len(nodes) : i # j => nodes[i].name # nodes[j].name

TranscodingCollision(nodes) ==
    \E i, j \in 1..Len(nodes) :
        \E x \in nodes[i].inputs \cup nodes[i].outputs :
            \E y \in nodes[j].inputs \cup nodes[j].outputs :
                x # y /\ get_namespace(x) = y

TwoProducers(nodes) ==
    \E i, j \in 1..Len(nodes) :
        /\ nodes[i] # nodes[j]
        /\ Namespaces(nodes[i].outputs) \cap Namespaces(nodes[j].outputs) # {}

\* C3: with unique node names and no transcoding collision, a node list in
\* which two different nodes have outputs of one namespace is rejected with
\* OutputNotUniqueError; in a constructed Pipeline every output namespace
\* has exactly one producer and by_output maps it to that node.
C3_OutputsUnique ==
    /\ (pipe # NoPipeline /\ NamesUnique(args) /\ ~TranscodingCollision(args)
            /\ TwoProducers(args))
          => pipe.err = "OutputNotUniqueError"
    /\ Constructed =>
          \A n \in pipe.nodes : \A o \in n.outputs :
              /\ {m \in pipe.nodes : get_namespace(o) \in Namespaces(m.outputs)} = {n}
              /\ get_namespace(o) \in DOMAIN pipe.by_output
              /\ pipe.by_output[get_namespace(o)] = n

\* Two nodes write two transcodings of one dataset and are rejected.
C3_Witness ==
    /\ pipe.err = "OutputNotUniqueError"
    /\ NamesUnique(args)
    /\ \E i, j \in 1..Len(args) : \E x \in args[i].outputs : \E y \in args[j].outputs :
          i # j /\ x # y /\ get_namespace(x) = get_namespace(y)

LiteralInputs(p) == UNION {n.inputs : n \in p.nodes}

LiteralOutputs(p) == UNION {n.outputs : n \in p.nodes}

\* C4: inputs() is the names of all_inputs() whose namespace is the
\* namespace of no output, outputs() the names of all_outputs() whose
\* namespace is the namespace of no input.
C4_FreeInputsTerminalOutputs ==
    op.name = "inputs_outputs" =>
        /\ res.inputs = {x \in LiteralInputs(pipe) :
                           \A o \in LiteralOutputs(pipe) :
                               get_namespace(o) # get_namespace(x)}
        /\ res.outputs = {x \in LiteralOutputs(pipe) :
                            \A i \in LiteralInputs(pipe) :
                                get_namespace(i) # get_namespace(x)}

\* inputs() and outputs() were taken of a pipeline with an intermediate
\* dataset written and read under two different transcodings.
C4_Witness ==
    /\ op.name = "inputs_outputs"
    /\ \E i \in LiteralInputs(pipe) : \E o \in LiteralOutputs(pipe) :
          i # o /\ get_namespace(i) = get_namespace(o)
    /\ res.inputs # {}
    /\ res.outputs # {}

NamesIn(p) == {n.name : n \in p.nodes}

\* C5 as stated: for any two Pipelines P and Q, P + Q is a Pipeline whose
\* node names are the union of the node names of P and Q, and Q + P has the
\* same set of nodes.
C5_AddAlwaysUnion ==
    op.name = "add" =>
        /\ res.err = NoError
        /\ NamesIn(res) = NamesIn(pipe) \cup NamesIn(op.other)
        /\ Add(op.other, pipe).nodes = res.nodes

\* C5 amended: P + Q either fails validation or is a Pipeline whose node set
\* is the union of the nodes of P and Q, a node that occurs in both
\* appearing once (so P + P succeeds); it fails with ValueError whenever two
\* different nodes of P and Q share a name, and fails only when the union
\* has two nodes of one name, a transcoding collision, two producers of one
\* namespace or a cycle; Q + P fails alike and otherwise has the same nodes.
C5_AddUnionOrFails ==
    op.name = "add" =>
        /\ res.err = NoError =>
              /\ res.nodes = pipe.nodes \cup op.other.nodes
              /\ NamesIn(res) = NamesIn(pipe) \cup NamesIn(op.other)
        /\ (\E n \in pipe.nodes : \E m \in op.other.nodes :
                n # m /\ n.name = m.name) => res.err = "ValueError"
        /\ res.err # NoError =>
              LET union == SetToSeq(pipe.nodes \cup op.other.nodes) IN
              \/ ~NamesUnique(union)
              \/ TranscodingCollision(union)
              \/ TwoProducers(union)
              \/ HasCycle(Range(union))
        /\ Add(op.other, pipe).err = res.err
        /\ Add(op.other, pipe).nodes = res.nodes

\* P + Q succeeded for two pipelines that share a node and each have a node
\* of their own.
C5_Witness ==
    /\ op.name = "add"
    /\ res.err = NoError
    /\ pipe.nodes \cap op.other.nodes # {}
    /\ pipe.nodes \ op.other.nodes # {}
    /\ op.other.nodes \ pipe.nodes # {}

\* C6: from_nodes(n) contains the nodes of only_nodes(n) and with every
\* node u every node of P that consumes a dataset u produces, also under a
\* different transcoding of the namespace.
C6_FromNodesClosed ==
    (op.name = "from_nodes" /\ res.err = NoError) =>
        /\ {n \in pipe.nodes : n.name \in Range(op.node_names)} \subseteq res.nodes
        /\ \A u \in res.nodes : \A v \in pipe.nodes :
              IsParent(u, v) => v \in res.nodes

\* C7: only_nodes with names that are all nodes of P returns the Pipeline of
\* exactly the nodes so named, whatever the order and the repetitions of
\* the names; with a name that is no node of P it fails with ValueError.
C7_OnlyNodesExact ==
    op.name = "only_nodes" =>
        IF Range(op.node_names) \subseteq NamesIn(pipe)
        THEN /\ res.err = NoError
             /\ res.nodes = {n \in pipe.nodes : n.name \in Range(op.node_names)}
        ELSE res.err = "ValueError"

----------------------------------------------------------------------------
(* Properties of Runner.run *)

\* run has been entered
Started == pc \notin {"idle", "delegated", "ValueError in run_only_missing"}

\* C8: run fails with ValueError exactly when a name of pipeline.inputs()
\* is not in catalog.list(), and then no node has run, no default data set
\* was added, set_remaining_loads was not called and nothing was saved.
C8_MissingInputFailsCleanly ==
    Started =>
        /\ pc = "ValueError" <=> (\E x \in inputs(pipe) : x \notin list(cat))
        /\ pc = "ValueError" =>
              /\ phase = <<>>
              /\ loads = <<>>
              /\ list(clone) = list(cat)
              /\ calls = EmptyBag
              /\ saved = {}
              /\ returned = <<>>

\* run refused a pipeline of which one free input is registered and another
\* is not, while an intermediate dataset is not registered either.
C8_Witness ==
    /\ pc = "ValueError"
    /\ inputs(pipe) \cap list(cat) # {}
    /\ inputs(pipe) \ list(cat) # {}
    /\ (all_inputs(pipe) \ inputs(pipe)) \ list(cat) # {}

Producer(p, o) == CHOOSE n \in p.nodes : o \in n.outputs

\* C9: after a successful run the returned mapping has exactly the names of
\* outputs() that were not registered before the run as keys, each with the
\* value its producing node returned for it and saved.
C9_ReturnsFreeOutputs ==
    pc = "done" =>
        /\ DOMAIN returned = outputs(pipe) \ list(cat)
        /\ \A o \in DOMAIN returned :
              /\ returned[o] = node_run(Producer(pipe, o))[o]
              /\ <<o, returned[o]>> \in saved

\* A run of at least two nodes ended and returned a free output, while
\* another output was left out because it is consumed or registered.
C9_Witness ==
    /\ pc = "done"
    /\ Cardinality(pipe.nodes) >= 2
    /\ DOMAIN returned # {}
    /\ LiteralOutputs(pipe) \ DOMAIN returned # {}

CallsFor(x) == {k \in 0..Cardinality(Universe) : BagIn(<<x, k>>, calls)}

C11_CallerCatalogKeepsItsNames == [][list(cat)' = list(cat)]_vars

\* run_only_missing ran to the end and its copy of the catalog has
\* registered data sets the caller's catalog does not have.
C11_Witness ==
    /\ op.name = "run_only_missing"
    /\ pc = "done"
    /\ list(clone) \ list(cat) # {}
    /\ calls # EmptyBag


\* run_only_missing was called with the linear pipeline f1(a,b)->c, f2(c)->d
\* and a catalog that registers a, b and d, of which only d does not exist
\* (to_build is then exactly {d}).
C12_Scenario ==
    /\ op.name = "run_only_missing"
    /\ op.other.nodes = {nF1, nF2}
    /\ list(cat) = {dsA, dsB, dsD}
    /\ op.datasets = {dsD}

\* C12: in that scenario the mapping run_only_missing returns contains the
\* key d.
C12_ReturnsMissingOutput ==
    (C12_Scenario /\ pc = "done") => dsD \in DOMAIN returned

\* C12, amended: in that scenario run_only_missing hands the whole pipeline
\* to run without raising, no node fails, and when it returns d has been
\* saved to the data set registered in the catalog and the returned mapping
\* is empty (d is registered, so it is not a free output).
C12_RunsAllReturnsNothing ==
    C12_Scenario =>
        /\ pipe.nodes = {nF1, nF2}
        /\ pc \in {"delegated", "running", "done"}
        /\ pc = "done" =>
              /\ returned = <<>>
              /\ load(clone, store, dsD) = node_run(nF2)[dsD]
              /\ exists(cat, store, dsD)

\* The scenario has run to the end.
C12_Witness ==
    /\ C12_Scenario
    /\ pc = "done"
    /\ \A n \in {nF1, nF2} : phase[n] = "done"

\* C13: when every free input of the pipeline run_only_missing was called
\* with is registered in the catalog, the call does not fail with ValueError,
\* whatever else the catalog registers and whether or not it exists.
C13_FailsOnlyOnUnsatisfiedInputs ==
    (op.name = "run_only_missing" /\ inputs(op.other) \subseteq list(cat))
        => pc \notin {"ValueError in run_only_missing", "ValueError"}

\* The nodes of S that produce a data set of names
ProducersOfBuilt(S, names) == {n \in S : n.outputs \cap names # {}}

\* The nodes of S that consume a data set of names, directly or through the
\* outputs of such a node
ConsumersOfBuilt(S, names) ==
    LET direct == {n \in S : n.inputs \cap names # {}} IN
    Descendants(S, direct, direct)

\* The nodes of S that produce an input of a node of frontier that is not
\* registered in catalog, and the producers of their unregistered inputs
RECURSIVE ProducersThroughMemory(_, _, _, _)
ProducersThroughMemory(S, catalog, frontier, seen) ==
    LET wanted == {x \in UNION {n.inputs : n \in frontier} : x \notin list(catalog)}
        producers == {m \in S : Namespaces(wanted) \cap Namespaces(m.outputs) # {}}
    IN  IF producers \subseteq seen THEN seen
        ELSE ProducersThroughMemory(S, catalog, producers \ seen, seen \cup producers)

NodesToRerun(S, catalog, names) ==
    LET built == ProducersOfBuilt(S, names) \cup ConsumersOfBuilt(S, names) IN
    built \cup ProducersThroughMemory(S, catalog, built, {})

\* C14: the pipeline run_only_missing hands to run contains exactly the nodes
\* that produce a data set of to_build, that consume one directly or
\* transitively, or that produce, through a chain of unregistered data sets,
\* an unregistered input of such a node; for the linear pipeline with only d
\* not existing this is the whole pipeline, and with to_build empty it has
\* no node.
C14_RerunsWhatIsToBuild ==
    (op.name = "run_only_missing" /\ pc = "delegated") =>
        /\ pipe.nodes = NodesToRerun(op.other.nodes, cat, op.datasets)
        /\ C12_Scenario => pipe.nodes = {nF1, nF2}
        /\ op.datasets = {} => pipe.nodes = {}

\* C15: while _run executes the layers in order, a node that has loaded its
\* inputs finds every node of the pipeline that produces the namespace of one
\* of them finished, its save completed, and in a strictly earlier layer.
C15_LoadsFollowSaves ==
    pc \in {"running", "done", "DataSetError"} =>
        \A n \in pipe.nodes : phase[n] \in {"loaded", "done"} =>
            \A m \in pipe.nodes : IsParent(m, n) =>
                /\ phase[m] = "done"
                /\ \A o \in m.outputs : <<o, node_run(m)[o]>> \in saved
                /\ LayerOf(pipe, m) < LayerOf(pipe, n)

\* C16: a constructed Pipeline is immutable: after any call on it and any
\* modification by the caller of what the call returned, P.nodes and
\* P.grouped_nodes are what they were right after construction.
C16_PipelineImmutable ==
    Constructed =>
        /\ nodes_of(pipe) = nodes_of(Pipeline(args))
        /\ grouped_nodes(pipe) = grouped_nodes(Pipeline(args))
====
